---- MODULE Spec2Model ----
(***************************************************************************)
(* havflow: the message queue, the sequential processor and the imbalance  *)
(* pipeline of src/src/App.jsx.                                            *)
(*                                                                         *)
(* Specifications:                                                         *)
(*   Spec      the component as wired: every handler (effect setup, init   *)
(*             continuation, socket callbacks, cleanup) runs to completion *)
(*             on the JavaScript event loop; apply_and_get is synchronous. *)
(*             Between handlers the processor is at rest (AtRest), so no   *)
(*             timer callback is ever pending there.                       *)
(*   SpecBurst the same handlers for one mount, driven by one long         *)
(*             deterministic stream of book messages (history eviction).   *)
(*   SpecCore  queueMessage / processNextMessage for one mount, called by  *)
(*             any caller at any time, with the engine call as a point     *)
(*             where other callbacks may run.  A handler of Spec is a      *)
(*             step to the call followed at once by the engine's return,   *)
(*             so SpecCore admits the processor behaviours of Spec and     *)
(*             those in which deltas arrive while a call is in flight.     *)
(*   SpecCoreFair  SpecCore in which pending timer callbacks and engine    *)
(*             returns are eventually run.                                 *)
(*   SpecFlood SpecCore's steps driven by one long stream of enqueues      *)
(*             against an engine that returns only under a backlog         *)
(*             (queue truncation).                                         *)
(*   SpecVolumes  the wired handlers for one mount, fed updates whose side *)
(*             volumes range over a grid and named scenarios, and a        *)
(*             snapshot of full depth (imbalance, pressure label, rows).   *)
(***************************************************************************)
EXTENDS Integers, Sequences, FiniteSets, TLC

\* ------------------------------------------------------------------ bounds
MaxMsgs == 3
MaxSessions == 2
MaxBurst == 203
MaxFlood == 305
MaxFloodApplied == 2
FloodBacklog == 198
\* SpecVolumes: side volumes 0..MaxVol (plus the named scenarios), MaxVolMsgs frames
MaxVol == 3
MaxVolMsgs == 2

\* ------------------------------------------------------- program constants
DEPTH == 25
QueueCap == 200
QueueKeep == 100
HistoryKeep == 59
\* bids.slice(0, 10) / asks.slice(0, 10) in the depth table
DisplayDepth == 10

VARIABLES
  status,            \* useState('Initializing...')
  sdkReady,          \* useState(false)
  imbalance,         \* useState(0), a fraction <<num, den>>
  imbalanceHistory,  \* useState([])
  bids,              \* useState([])
  asks,              \* useState([])
  stats,             \* useState({bidVolume, askVolume, spread, midPrice})
  bookRef,           \* useRef(null): [id, freed], id = 0 is null
  wsRef,             \* useRef(null): [session, state] of the current socket
  messageQueue,      \* messageQueueRef.current
  processing,        \* processingRef.current
  mounted,           \* `mounted` of the latest effect closure (earlier
                     \*   closures' flags are false for good)
  sessions,          \* number of effect setups so far
  awaiting,          \* sessions whose init() is suspended at await initWasm()
  timers,            \* pending setTimeout(processNextMessage, 0) callbacks
  inflight,          \* apply_and_get calls begun and not yet handled
  enqueued,          \* history: number of queueMessage calls
  applied,           \* history: calls of apply_and_get, in order
  discarded,         \* history: deltas dequeued with no book and no call
  truncations,       \* history: number of slice(-100) truncations
  samples,           \* history: every imbalance sample produced, in order
  publishes,         \* history: number of setStats publications
  outcomes,          \* history: outcome of every handled application
  burst,             \* history: enqueues since the queue was last empty, -1 once a
                     \*   dequeue left it non-empty
  epoch              \* history: enqueued/samples counts at the last book creation

vars == <<status, sdkReady, imbalance, imbalanceHistory, bids, asks, stats,
          bookRef, wsRef, messageQueue, processing, mounted, sessions,
          awaiting, timers, inflight, enqueued, applied, discarded,
          truncations, samples, publishes, outcomes, burst, epoch>>

lifecycleVars == <<status, sdkReady, wsRef, mounted, sessions, awaiting, epoch>>

\* ----------------------------------------------------------- pure helpers
Abs(n) == IF n < 0 THEN -n ELSE n

RECURSIVE Gcd(_, _)
Gcd(a, b) == IF b = 0 THEN a ELSE Gcd(b, a % b)

\* Array.prototype.slice(-n): the last n elements, all of them when shorter.
SliceLast(q, n) == IF Len(q) <= n THEN q ELSE SubSeq(q, Len(q) - n + 1, Len(q))

\* Array.prototype.slice(0, n)
SliceFirst(q, n) == IF Len(q) <= n THEN q ELSE SubSeq(q, 1, n)

\* b.qty || b[1] || 0 : a level is an object {price, qty} or a pair
\* [price, qty].  An object's b.qty is taken when truthy, else b[1] is
\* undefined and 0 results; a pair has no b.qty and b[1] || 0 is taken.
QtyOf(level) ==
  IF level.shape = "obj"
    THEN (IF level.qty # 0 THEN level.qty ELSE 0)
    ELSE (IF level.qty # 0 THEN level.qty ELSE 0)

\* levels.reduce((sum, b) => sum + (b.qty || b[1] || 0), 0)
RECURSIVE SumQty(_)
SumQty(levels) ==
  IF levels = <<>> THEN 0
  ELSE SumQty(SubSeq(levels, 1, Len(levels) - 1)) + QtyOf(levels[Len(levels)])

\* Variant: the bid share bidVolume / total instead of the signed imbalance.
Imb_BidShare(bidVolume, askVolume) ==
  LET t == bidVolume + askVolume
      g == Gcd(bidVolume, t)
  IN  <<bidVolume \div g, t \div g>>

\* (bidVolume - askVolume) / total, as a fraction in lowest terms (total > 0)
Imb(bidVolume, askVolume) ==
  LET n == bidVolume - askVolume
      t == bidVolume + askVolume
      g == Gcd(Abs(n), t)
  IN  <<n \div g, t \div g>>

\* Variant: slice(-60), nothing is evicted at capacity.
HistoryAppend_NoEvict(prev, imb) == Append(SliceLast(prev, HistoryKeep + 1), imb)

\* Variant: the new sample is put in front.
HistoryAppend_Prepend(prev, imb) == <<imb>> \o SliceLast(prev, HistoryKeep)

\* prev => [...prev.slice(-59), imb]
HistoryAppend(prev, imb) == Append(SliceLast(prev, HistoryKeep), imb)

\* Variant: slice(0, 100), the oldest entries are kept.
PushBounded_KeepOldest(q, data) ==
  LET q1 == Append(q, data)
  IN  IF Len(q1) > QueueCap THEN SliceFirst(q1, QueueKeep) ELSE q1

\* Variant: the test is length >= 200.
PushBounded_OffByOne(q, data) ==
  LET q1 == Append(q, data)
  IN  IF Len(q1) >= QueueCap THEN SliceLast(q1, QueueKeep) ELSE q1

\* push(data); if (length > 200) queue = queue.slice(-100)
PushBounded(q, data) ==
  LET q1 == Append(q, data)
  IN  IF Len(q1) > QueueCap THEN SliceLast(q1, QueueKeep) ELSE q1

\* ------------------------------------------------------- engine responses
Level(p, q) == [shape |-> "obj", price |-> p, qty |-> q]
Pair(p, q) == [shape |-> "pair", price |-> p, qty |-> q]

Response(kind, type, bs, as, sp, mid) ==
  [kind |-> kind, msg_type |-> type, bids |-> bs, asks |-> as,
   spread |-> sp, mid_price |-> mid]

Throws == Response("throw", "none", <<>>, <<>>, 0, 0)
NoResult == Response("null", "none", <<>>, <<>>, 0, 0)
Heartbeat == Response("value", "heartbeat", <<Level(9, 5)>>, <<Level(10, 1)>>, 1, 9)

\* What apply_and_get may do for one delta: throw, return nothing, return a
\* result that is no book message, or return a snapshot / update.
EngineResults ==
  { Throws, NoResult, Heartbeat,
    Response("value", "snapshot", <<Level(9, 2), Pair(8, 1)>>, <<Level(10, 1)>>, 1, 9),
    Response("value", "update", <<Level(9, 1)>>, <<Level(10, 2), Pair(11, 1)>>, 1, 9),
    Response("value", "update", <<>>, <<>>, 0, 0) }

\* ------------------------------------------------ processor state as a value
NullBook == [id |-> 0, freed |-> FALSE]

Cur ==
  [messageQueue |-> messageQueue, processing |-> processing, timers |-> timers,
   inflight |-> inflight, bookRef |-> bookRef,
   imbalance |-> imbalance, imbalanceHistory |-> imbalanceHistory,
   bids |-> bids, asks |-> asks, stats |-> stats,
   enqueued |-> enqueued, applied |-> applied, discarded |-> discarded,
   truncations |-> truncations, samples |-> samples, publishes |-> publishes,
   outcomes |-> outcomes, burst |-> burst]

Install(s) ==
  /\ messageQueue' = s.messageQueue
  /\ processing' = s.processing
  /\ timers' = s.timers
  /\ inflight' = s.inflight
  /\ bookRef' = s.bookRef
  /\ imbalance' = s.imbalance
  /\ imbalanceHistory' = s.imbalanceHistory
  /\ bids' = s.bids
  /\ asks' = s.asks
  /\ stats' = s.stats
  /\ enqueued' = s.enqueued
  /\ applied' = s.applied
  /\ discarded' = s.discarded
  /\ truncations' = s.truncations
  /\ samples' = s.samples
  /\ publishes' = s.publishes
  /\ outcomes' = s.outcomes
  /\ burst' = s.burst

\* Variant: no continuation is scheduled.
Finally_NoReschedule(s) == [s EXCEPT !.processing = FALSE]

\* Variant: the continuation is scheduled but the busy flag is not cleared.
Finally_StaysBusy(s) ==
  [s EXCEPT !.timers = IF Len(s.messageQueue) > 0 THEN @ + 1 ELSE @]

\* finally { processingRef.current = false; if (queue.length > 0) setTimeout(...) }
Finally(s) ==
  [s EXCEPT !.processing = FALSE,
            !.timers = IF Len(s.messageQueue) > 0 THEN @ + 1 ELSE @]

\* queueMessage, lines 76-80: push and bound the queue.  The payload is
\* tagged with its arrival number.
QueuePush(s) ==
  LET data == s.enqueued + 1
      q1 == Append(s.messageQueue, data)
  IN  [s EXCEPT !.messageQueue = PushBounded(s.messageQueue, data),
                !.enqueued = data,
                !.burst = IF @ >= 0 THEN @ + 1 ELSE @,
                !.truncations = IF Len(q1) > QueueCap THEN @ + 1 ELSE @]

\* processNextMessage, lines 26-37: busy = true, the dequeued delta, the
\* absent-book exit (whose `return` inside `try` still runs `finally`, so
\* lines 32-33 are followed by lines 68-70), else the call of apply_and_get.
BeginWith(s, data, rest) ==
  LET s1 == [s EXCEPT !.processing = TRUE, !.messageQueue = rest,
                      !.burst = IF Len(rest) = 0 THEN 0 ELSE -1]
  IN  IF s1.bookRef.id = 0
        THEN Finally(Finally([s1 EXCEPT !.discarded = Append(@, data)]))
        ELSE [s1 EXCEPT
               !.inflight = Append(@, [data |-> data, book |-> s1.bookRef]),
               !.applied = Append(@, [data |-> data, book |-> s1.bookRef])]

\* Variant: the `if (processingRef.current) return` guard is missing.
PNM_Begin_NoBusyCheck(s) ==
  IF Len(s.messageQueue) = 0 THEN s
  ELSE BeginWith(s, Head(s.messageQueue), Tail(s.messageQueue))

\* Variant: the `if (!book)` exit is missing and the call is made anyway.
PNM_Begin_NoBookCheck(s) ==
  IF s.processing THEN s
  ELSE IF Len(s.messageQueue) = 0 THEN s
  ELSE [s EXCEPT
         !.processing = TRUE, !.messageQueue = Tail(@),
         !.burst = IF Len(s.messageQueue) = 1 THEN 0 ELSE -1,
         !.inflight = Append(@, [data |-> Head(s.messageQueue), book |-> s.bookRef]),
         !.applied = Append(@, [data |-> Head(s.messageQueue), book |-> s.bookRef])]

\* Variant: pop() instead of shift().
PNM_Begin_Lifo(s) ==
  IF s.processing THEN s
  ELSE IF Len(s.messageQueue) = 0 THEN s
  ELSE BeginWith(s, s.messageQueue[Len(s.messageQueue)],
                 SubSeq(s.messageQueue, 1, Len(s.messageQueue) - 1))

\* processNextMessage, lines 23-37: the guards and shift(), up to the call.
PNM_Begin(s) ==
  IF s.processing THEN s
  ELSE IF Len(s.messageQueue) = 0 THEN s
  ELSE
    BeginWith(s, Head(s.messageQueue), Tail(s.messageQueue))

\* Outcome of handling a response r, as recorded in `outcomes`.
OutcomeOf(r) ==
  IF r.kind = "throw" THEN "throw"
  ELSE IF r.kind = "null" THEN "null"
  ELSE IF ~(r.msg_type = "update" \/ r.msg_type = "snapshot") THEN "other"
  ELSE IF SumQty(r.bids) + SumQty(r.asks) > 0 THEN "sample"
  ELSE "zero"

\* The try body for an actionable result, with and without the total > 0 test.
Publish(s, r, guarded) ==
  LET bidVolume == SumQty(r.bids)
      askVolume == SumQty(r.asks)
      total == bidVolume + askVolume
      imb == IF total > 0 THEN Imb(bidVolume, askVolume) ELSE <<0, 0>>
      s1 == [s EXCEPT !.bids = r.bids, !.asks = r.asks,
                      !.stats = [bidVolume |-> bidVolume,
                                 askVolume |-> askVolume,
                                 spread |-> r.spread,
                                 midPrice |-> r.mid_price],
                      !.publishes = @ + 1]
  IN  IF guarded /\ total = 0 THEN s1
      ELSE [s1 EXCEPT !.imbalance = imb,
                      !.imbalanceHistory = HistoryAppend(@, imb),
                      !.samples = Append(@, imb)]

\* Variant: `if (total > 0)` is missing; 0 / 0 (written <<0, 0>>) is published.
HandleResult_NoZeroGuard(s, r) ==
  IF r.kind = "value" /\ (r.msg_type = "update" \/ r.msg_type = "snapshot")
    THEN Publish(s, r, FALSE)
    ELSE s

\* Variant: msg_type is not tested.
HandleResult_AnyType(s, r) ==
  IF r.kind = "value" THEN Publish(s, r, TRUE) ELSE s

\* Variant: the sample enters the history but setImbalance is not called.
HandleResult_NoSetImbalance(s, r) ==
  IF r.kind = "value" /\ (r.msg_type = "update" \/ r.msg_type = "snapshot")
    THEN [Publish(s, r, TRUE) EXCEPT !.imbalance = s.imbalance]
    ELSE s

\* Variant: the lists are cut to the displayed rows before they are summed
\* and published.
HandleResult_Top10(s, r) ==
  IF r.kind = "value" /\ (r.msg_type = "update" \/ r.msg_type = "snapshot")
    THEN Publish(s, [r EXCEPT !.bids = SliceFirst(@, DisplayDepth),
                              !.asks = SliceFirst(@, DisplayDepth)], TRUE)
    ELSE s

\* processNextMessage, lines 39-63: the body after a returned result.
HandleResult(s, r) ==
  IF r.kind = "value" /\ (r.msg_type = "update" \/ r.msg_type = "snapshot")
    THEN
      LET bidVolume == SumQty(r.bids)
          askVolume == SumQty(r.asks)
          total == bidVolume + askVolume
          s1 == [s EXCEPT !.bids = r.bids, !.asks = r.asks,
                          !.stats = [bidVolume |-> bidVolume,
                                     askVolume |-> askVolume,
                                     spread |-> r.spread,
                                     midPrice |-> r.mid_price],
                          !.publishes = @ + 1]
      IN  IF total > 0
            THEN [s1 EXCEPT
                   !.imbalance = Imb(bidVolume, askVolume),
                   !.imbalanceHistory = HistoryAppend(@, Imb(bidVolume, askVolume)),
                   !.samples = Append(@, Imb(bidVolume, askVolume))]
            ELSE s1
    ELSE s

\* Variant: busy is reset at the end of the try body, not in a finally.
PNM_End_NoFinally(s, r) ==
  LET s1 == [s EXCEPT !.inflight = Tail(@),
                      !.outcomes = Append(@, OutcomeOf(r))]
  IN  IF r.kind = "throw" THEN s1 ELSE Finally(HandleResult(s1, r))

\* processNextMessage, lines 37-72: the oldest call in flight returns or
\* throws; try body, catch, finally.
PNM_End(s, r) ==
  LET s1 == [s EXCEPT !.inflight = Tail(@),
                      !.outcomes = Append(@, OutcomeOf(r))]
  IN  Finally(IF r.kind = "throw" THEN s1 ELSE HandleResult(s1, r))

\* processNextMessage run to completion (the engine call is synchronous).
\* Variant: the engine call does not return within the handler.
ProcessNextMessage_Async(s, r) == PNM_Begin(s)

ProcessNextMessage(s, r) ==
  LET b == PNM_Begin(s)
  IN  IF Len(b.inflight) > Len(s.inflight) THEN PNM_End(b, r) ELSE b

\* queueMessage run to completion, lines 75-82.
QueueMessage(s, r) == ProcessNextMessage(QueuePush(s), r)

\* ------------------------------------------------------------------- Init
Init ==
  /\ status = "Initializing..."
  /\ sdkReady = FALSE
  /\ imbalance = <<0, 1>>
  /\ imbalanceHistory = <<>>
  /\ bids = <<>>
  /\ asks = <<>>
  /\ stats = [bidVolume |-> 0, askVolume |-> 0, spread |-> 0, midPrice |-> 0]
  /\ bookRef = NullBook
  /\ wsRef = [session |-> 0, state |-> "none"]
  /\ messageQueue = <<>>
  /\ processing = FALSE
  /\ mounted = FALSE
  /\ sessions = 0
  /\ awaiting = {}
  /\ timers = 0
  /\ inflight = <<>>
  /\ enqueued = 0
  /\ applied = <<>>
  /\ discarded = <<>>
  /\ truncations = 0
  /\ samples = <<>>
  /\ publishes = 0
  /\ outcomes = <<>>
  /\ burst = 0
  /\ epoch = [session |-> 0, enqueued |-> 0, samples |-> 0, applied |-> 0]

processorVars == <<imbalance, imbalanceHistory, bids, asks, stats, messageQueue,
                   processing, timers, inflight, enqueued, applied, discarded,
                   truncations, samples, publishes, outcomes, burst>>

\* ------------------------------------------------------ lifecycle handlers
\* useEffect setup, lines 85-131: mounted = true; init() runs to its await.
EffectSetup ==
  /\ ~mounted
  /\ sessions < MaxSessions
  /\ mounted' = TRUE
  /\ sessions' = sessions + 1
  /\ awaiting' = awaiting \cup {sessions + 1}
  /\ UNCHANGED <<status, sdkReady, wsRef, epoch, bookRef, processorVars>>

\* init() after await initWasm(), lines 90-128, for the closure of session n.
InitResume(n) ==
  /\ n \in awaiting
  /\ awaiting' = awaiting \ {n}
  /\ IF mounted /\ n = sessions
       THEN /\ sdkReady' = TRUE
            /\ bookRef' = [id |-> n, freed |-> FALSE]
            /\ status' = "Connecting..."
            /\ wsRef' = [session |-> n, state |-> "connecting"]
            /\ epoch' = [session |-> n, enqueued |-> enqueued, samples |-> Len(samples),
                         applied |-> Len(applied)]
       ELSE UNCHANGED <<sdkReady, bookRef, status, wsRef, epoch>>
  /\ UNCHANGED <<mounted, sessions, processorVars>>

\* `mounted` as the callbacks of the current socket see it.
SocketMounted == mounted /\ wsRef.session = sessions

\* ws.onopen, lines 104-112
WsOpen ==
  /\ wsRef.state = "connecting"
  /\ wsRef' = [wsRef EXCEPT !.state = "open"]
  /\ status' = IF SocketMounted THEN "Connected" ELSE status
  /\ UNCHANGED <<sdkReady, mounted, sessions, awaiting, epoch, bookRef, processorVars>>

\* ws.onclose, lines 124-127
WsClose ==
  /\ wsRef.state \in {"open", "closing"}
  /\ wsRef' = [wsRef EXCEPT !.state = "closed"]
  /\ status' = IF SocketMounted THEN "Disconnected" ELSE status
  /\ UNCHANGED <<sdkReady, mounted, sessions, awaiting, epoch, bookRef, processorVars>>

\* Variant: the book is not freed.
Cleanup_NoFree ==
  /\ mounted
  /\ mounted' = FALSE
  /\ wsRef' = IF wsRef.state \in {"connecting", "open"}
                THEN [wsRef EXCEPT !.state = "closing"] ELSE wsRef
  /\ UNCHANGED <<bookRef, status, sdkReady, sessions, awaiting, epoch, processorVars>>

\* ws.onerror, line 128 (not guarded by `mounted`)
WsError ==
  /\ wsRef.state \in {"connecting", "open", "closing"}
  /\ status' = "Error"
  /\ UNCHANGED <<sdkReady, wsRef, mounted, sessions, awaiting, epoch, bookRef,
                 processorVars>>

\* useEffect cleanup, lines 132-136
Cleanup ==
  /\ mounted
  /\ mounted' = FALSE
  /\ wsRef' = IF wsRef.state \in {"connecting", "open"}
                THEN [wsRef EXCEPT !.state = "closing"] ELSE wsRef
  /\ bookRef' = IF bookRef.id = 0 THEN bookRef ELSE [bookRef EXCEPT !.freed = TRUE]
  /\ UNCHANGED <<status, sdkReady, sessions, awaiting, epoch, processorVars>>

\* ws.onmessage, lines 114-122, run to completion.  kind is what the frame
\* parses to; r is what the engine does with it if it is applied.
\* Variant: `if (!mounted) return` is missing.
OnMessage_NoMountedGuard(kind, r) ==
  /\ wsRef.state \in {"open", "closing"}
  /\ IF kind = "book"
       THEN Install(QueueMessage(Cur, r))
       ELSE UNCHANGED <<bookRef, processorVars>>
  /\ UNCHANGED lifecycleVars

OnMessage(kind, r) ==
  /\ wsRef.state \in {"open", "closing"}
  /\ IF SocketMounted /\ kind = "book"
       THEN Install(QueueMessage(Cur, r))
       ELSE UNCHANGED <<bookRef, processorVars>>
  /\ UNCHANGED lifecycleVars

FrameKinds == {"book", "other", "malformed"}

WsMessage(kind, r) ==
  /\ enqueued < MaxMsgs
  /\ OnMessage(kind, r)

Next ==
  \/ EffectSetup
  \/ \E n \in 1..MaxSessions : InitResume(n)
  \/ WsOpen
  \/ WsClose
  \/ WsError
  \/ Cleanup
  \/ \E kind \in FrameKinds, r \in EngineResults : WsMessage(kind, r)

Spec == Init /\ [][Next]_vars

\* Between handlers the processor is at rest: nothing queued, nothing in
\* flight, no continuation pending.  This is why Next has no timer action.
AtRest ==
  /\ messageQueue = <<>>
  /\ ~processing
  /\ timers = 0
  /\ inflight = <<>>

\* ------------------------------------------------- the processor on its own
\* queueMessage called by any caller at any time, up to the engine call.
QueueMessageCall ==
  /\ Install(PNM_Begin(QueuePush(Cur)))
  /\ UNCHANGED lifecycleVars

\* apply_and_get returns (or throws) and the rest of processNextMessage runs.
EngineReturn(r) ==
  /\ inflight # <<>>
  /\ Install(PNM_End(Cur, r))
  /\ UNCHANGED lifecycleVars

\* A setTimeout(processNextMessage, 0) callback runs, up to the engine call.
TimerFire ==
  /\ timers > 0
  /\ Install(PNM_Begin([Cur EXCEPT !.timers = @ - 1]))
  /\ UNCHANGED lifecycleVars

Enqueue ==
  /\ enqueued < MaxMsgs
  /\ QueueMessageCall

\* The effect of one mount: its dependency queueMessage never changes.
MountOnce ==
  /\ sessions = 0
  /\ EffectSetup

NextCore ==
  \/ MountOnce
  \/ \E n \in 1..MaxSessions : InitResume(n)
  \/ Cleanup
  \/ Enqueue
  \/ \E r \in EngineResults : EngineReturn(r)
  \/ TimerFire

SpecCore == Init /\ [][NextCore]_vars

\* Deferred continuations and engine returns are tasks the event loop runs.
SpecCoreFair ==
  /\ SpecCore
  /\ WF_vars(TimerFire)
  /\ WF_vars(\E r \in EngineResults : EngineReturn(r))

\* ------------------------------------------------ one long stream, as wired
\* The engine's response to the k-th book message of the stream: every fifth
\* delta is rejected, every seventh is no book message, every eleventh
\* empties the book, and the others give a book of k against 1.
BurstResponse(k) ==
  IF k % 5 = 0 THEN Throws
  ELSE IF k % 7 = 0 THEN Heartbeat
  ELSE IF k % 11 = 0 THEN Response("value", "update", <<>>, <<>>, 0, 0)
  ELSE Response("value", "update", <<Level(9, k)>>, <<Pair(10, 1)>>, 1, 9)

BurstMessage ==
  /\ enqueued < MaxBurst
  /\ OnMessage("book", BurstResponse(enqueued + 1))

NextBurst ==
  \/ MountOnce
  \/ \E n \in 1..MaxSessions : InitResume(n)
  \/ WsOpen
  \/ BurstMessage

SpecBurst == Init /\ [][NextBurst]_vars

\* ------------------------------------ one long stream against a busy engine
FloodEnqueue ==
  /\ bookRef.id # 0
  /\ enqueued < MaxFlood
  /\ QueueMessageCall

\* The engine is slow: it returns only under a backlog.
FloodReturn ==
  /\ Len(outcomes) < MaxFloodApplied
  /\ Len(messageQueue) >= FloodBacklog
  /\ EngineReturn(BurstResponse(Head(inflight).data))

NextFlood ==
  \/ MountOnce
  \/ \E n \in 1..MaxSessions : InitResume(n)
  \/ FloodEnqueue
  \/ FloodReturn
  \/ TimerFire

SpecFlood == Init /\ [][NextFlood]_vars

\* ------------------------------------------------------------- rendering
\* Variant: the bands as strict inequalities.
Pressure_Exclusive(imb) ==
  IF imb[1] * 10 > imb[2] THEN "BUY PRESSURE"
  ELSE IF imb[1] * 10 < -imb[2] THEN "SELL PRESSURE"
  ELSE "BALANCED"

\* imbalance >= 0.1 ? 'BUY PRESSURE' : imbalance <= -0.1 ? 'SELL PRESSURE'
\* : 'BALANCED', on a fraction <<n, d>> with d > 0.
Pressure(imb) ==
  IF imb[1] * 10 >= imb[2] THEN "BUY PRESSURE"
  ELSE IF imb[1] * 10 <= -imb[2] THEN "SELL PRESSURE"
  ELSE "BALANCED"

PressureLabel == Pressure(imbalance)

\* The rows of the depth table.
DisplayedBids == SliceFirst(bids, DisplayDepth)
DisplayedAsks == SliceFirst(asks, DisplayDepth)

\* ------------------------------------------------ a range of book volumes
\* The wired component, mounted once, fed updates whose side volumes range
\* over a grid and over named scenarios (quantities in units of 0.5), and
\* a snapshot that fills all DEPTH levels of both sides.
VolumeResponse(b, a) ==
  Response("value", "update", <<Level(9, b)>>, <<Pair(10, a)>>, 1, 9)

ScenarioVolumes ==
  {<<15, 5>>, <<5, 15>>, <<8, 12>>, <<12, 8>>, <<10, 10>>, <<11, 9>>, <<9, 11>>}

FullDepthResponse ==
  Response("value", "snapshot",
           [i \in 1..DEPTH |-> Level(100 - i, i)],
           [i \in 1..DEPTH |-> Pair(100 + i, 1)], 1, 100)

VolumeResults ==
  {VolumeResponse(b, a) : b \in 0..MaxVol, a \in 0..MaxVol}
  \cup {VolumeResponse(v[1], v[2]) : v \in ScenarioVolumes}
  \cup {FullDepthResponse}

VolumeMessage ==
  /\ enqueued < MaxVolMsgs
  /\ \E r \in VolumeResults : OnMessage("book", r)

NextVolumes ==
  \/ MountOnce
  \/ \E n \in 1..MaxSessions : InitResume(n)
  \/ WsOpen
  \/ VolumeMessage

SpecVolumes == Init /\ [][NextVolumes]_vars

\* ================================================================== claims
Ids(a, b) == [i \in 1..(b - a + 1) |-> a + i - 1]

Range(q) == {q[i] : i \in 1..Len(q)}

AppliedIds == {applied[i].data : i \in 1..Len(applied)}

\* C1 (SpecCore): at most one apply_and_get is in flight; a call begins only
\* when none is in flight and the processor is not busy; and a step taken
\* while busy (an advance that finds busy = true included) dequeues nothing
\* and calls nothing: the queue changes by the enqueue's push alone.
C1_OneInFlight ==
  [][ /\ Len(inflight') <= 1
      /\ (Len(applied') > Len(applied) => inflight = <<>> /\ ~processing)
      /\ (processing =>
            /\ applied' = applied
            /\ discarded' = discarded
            /\ messageQueue' = IF enqueued' = enqueued
                                 THEN messageQueue
                                 ELSE PushBounded(messageQueue, enqueued')) ]_vars

\* An application is in flight and two enqueues have found the processor busy.
C1_Witness ==
  /\ processing
  /\ Len(inflight) = 1
  /\ Len(messageQueue) >= 2

\* C2 (SpecCore): the deltas passed to apply_and_get are a subsequence of the
\* enqueue sequence: arrival numbers of applied deltas strictly increase
\* (order kept, none applied twice) and each was enqueued.
C2_Fifo ==
  \A i \in 1..Len(applied) :
    /\ applied[i].data \in 1..enqueued
    /\ \A j \in 1..(i - 1) : applied[j].data < applied[i].data

\* Two deltas applied, the second dequeued from a backlog of two or more.
C2_Witness ==
  /\ Len(applied) >= 2
  /\ burst = -1

\* C3 (SpecFlood): the queue never holds more than 200 entries, and an
\* enqueue onto a queue of 200 replaces it by the 100 most recent of the 201
\* entries, in order; when the processor is idle the advance of that same
\* enqueue then takes the first of them.
C3_QueueBounded ==
  [][ /\ Len(messageQueue') <= QueueCap
      /\ (enqueued' = enqueued + 1 /\ Len(messageQueue) = QueueCap =>
            LET full == Append(messageQueue, enqueued')
                kept == [i \in 1..QueueKeep |-> full[Len(full) - QueueKeep + i]]
            IN  /\ truncations' = truncations + 1
                /\ IF processing
                     THEN messageQueue' = kept /\ applied' = applied
                     ELSE /\ messageQueue' = Tail(kept)
                          /\ applied' = Append(applied, [data |-> Head(kept),
                                                         book |-> bookRef])) ]_vars

\* The queue has just been cut back to 100 entries.
C3_Witness ==
  /\ truncations >= 1
  /\ Len(messageQueue) = QueueKeep
  /\ messageQueue[QueueKeep] = enqueued

\* C4 as stated: after 201 enqueues starting from the empty queue, the queue
\* holds exactly the last 100 of them.
C4_Original ==
  enqueued = QueueCap + 1 =>
    messageQueue = Ids(enqueued - QueueKeep + 1, enqueued)

\* C4 amended (SpecFlood): when 201 deltas are enqueued onto an empty queue
\* and no advance dequeues in between (an application is in flight), the
\* queue holds exactly the last 100 of them, in order.
C4_FloodKeepsLast100 ==
  burst = QueueCap + 1 =>
    messageQueue = Ids(enqueued - QueueKeep + 1, enqueued)

\* 201 enqueues onto an empty queue with no dequeue in between.
C4_Witness ==
  /\ burst = QueueCap + 1
  /\ Len(messageQueue) = QueueKeep

HistoryCap == HistoryKeep + 1

\* The samples the stream's responses give for the applied deltas, in order.
GivesSample(call) == OutcomeOf(BurstResponse(call.data)) = "sample"

SamplesOf(ap) ==
  LET sel == SelectSeq(ap, GivesSample)
  IN  [i \in 1..Len(sel) |->
         Imb(SumQty(BurstResponse(sel[i].data).bids),
             SumQty(BurstResponse(sel[i].data).asks))]

\* C5 (SpecBurst): the history never holds more than 60 values; a sample
\* appended to a history of 60 removes exactly the oldest; and after the 61st
\* sample the history is samples 2..61 in arrival order.
C5_HistoryBounded ==
  [][ /\ Len(imbalanceHistory') <= HistoryCap
      /\ (Len(samples') = Len(samples) + 1 /\ Len(imbalanceHistory) = HistoryCap =>
            imbalanceHistory' =
              Append(Tail(imbalanceHistory), samples'[Len(samples')]))
      /\ (Len(samples') = HistoryCap + 1 =>
            /\ Len(imbalanceHistory') = HistoryCap
            /\ imbalanceHistory' = Tail(SamplesOf(applied'))) ]_vars

\* The 61st sample has been appended.
C5_Witness ==
  /\ Len(samples) = HistoryCap + 1
  /\ Len(imbalanceHistory) = HistoryCap

\* C6 (SpecBurst): the history is the last min(60, n) of the n samples that
\* the applied deltas produced, in application order.
C6_HistoryTracksOrder ==
  LET all == SamplesOf(applied)
      n == Len(all)
      m == IF n < HistoryCap THEN n ELSE HistoryCap
  IN  /\ Len(imbalanceHistory) = m
      /\ \A i \in 1..m : imbalanceHistory[i] = all[n - m + i]

\* More than 60 samples produced, with rejected deltas among the applied.
C6_Witness ==
  /\ Len(samples) >= HistoryCap + 10
  /\ Len(imbalanceHistory) = HistoryCap
  /\ Len(applied) > Len(samples)

\* C7 (SpecCore): when apply_and_get throws, nothing is published and no
\* sample recorded, the delta is gone (not queued again), busy is false and a
\* continuation is scheduled when deltas wait; a rejected delta between two
\* that give samples leaves two publications and two samples.
C7_FailureIsolation ==
  [][ /\ (Len(outcomes') = Len(outcomes) + 1 /\ outcomes'[Len(outcomes')] = "throw" =>
            /\ UNCHANGED <<imbalance, imbalanceHistory, bids, asks, stats>>
            /\ UNCHANGED <<samples, publishes, messageQueue, applied>>
            /\ inflight' = Tail(inflight)
            /\ Head(inflight).data \notin Range(messageQueue')
            /\ ~processing'
            /\ timers' = IF messageQueue # <<>> THEN timers + 1 ELSE timers)
      /\ (outcomes' = <<"sample", "throw", "sample">> =>
            /\ publishes' = 2
            /\ Len(samples') = 2
            /\ Len(imbalanceHistory') = 2) ]_vars

\* A rejected delta between two that gave samples, all handled.
C7_Witness ==
  /\ outcomes = <<"sample", "throw", "sample">>
  /\ publishes = 2
  /\ ~processing

TerminalStatuses == {"Error", "Disconnected"}

C9_Liveness ==
  /\ \A k \in 1..MaxMsgs :
       (enqueued >= k /\ k \notin Range(discarded)) ~> (k \in AppliedIds)
  /\ [](\A i, j \in 1..Len(applied) : applied[i].data = applied[j].data => i = j)
  /\ <>[](messageQueue = <<>> /\ ~processing)

\* Every delta enqueued has been handled and the processor is idle.
C9_Witness ==
  /\ enqueued = MaxMsgs
  /\ Len(applied) = MaxMsgs
  /\ Len(outcomes) = MaxMsgs
  /\ messageQueue = <<>>
  /\ ~processing
  /\ timers = 0

Handled ==
  IF Len(outcomes') = Len(outcomes) + 1 THEN outcomes'[Len(outcomes')] ELSE ""

\* C11 (Spec): a delta applied with bidVolume + askVolume = 0 produces no
\* sample: history and imbalance stay as they were (the zero volumes
\* themselves are published).
C11_ZeroVolumeSkip ==
  [][ Handled = "zero" =>
        /\ imbalanceHistory' = imbalanceHistory
        /\ imbalance' = imbalance
        /\ samples' = samples
        /\ stats'.bidVolume + stats'.askVolume = 0 ]_vars

\* A zero-volume update handled after a sample: the old imbalance stands.
C11_Witness ==
  /\ outcomes = <<"sample", "zero">>
  /\ stats.bidVolume + stats.askVolume = 0
  /\ imbalance # <<0, 1>>
  /\ imbalanceHistory = <<imbalance>>

\* C12 (Spec): a delta whose result is missing or is neither snapshot nor
\* update changes none of bids, asks, stats, imbalance and history; the
\* delta is consumed (applied, and not left in the queue).
C12_NonActionableNoOp ==
  [][ (Handled = "other" \/ Handled = "null") =>
        /\ UNCHANGED <<bids, asks, stats, imbalance, imbalanceHistory>>
        /\ UNCHANGED <<samples, publishes>>
        /\ Len(applied') = Len(applied) + 1
        /\ enqueued' \notin Range(messageQueue')
        /\ applied'[Len(applied')].data = enqueued' ]_vars

\* A result of another type and a missing result handled after a sample.
C12_Witness ==
  /\ outcomes = <<"sample", "other", "null">>
  /\ publishes = 1
  /\ Len(imbalanceHistory) = 1

\* A fraction <<n, d>> is a number of [-1, 1].
InUnitInterval(x) == x[2] > 0 /\ -x[2] <= x[1] /\ x[1] <= x[2]

\* C13 (SpecVolumes): every imbalance computed from volumes b, a >= 0 with
\* b + a > 0 lies in [-1, 1], as does every value stored in the history;
\* and it is antisymmetric: when the sample just taken has the two volumes
\* of the previous sample exchanged, the new value is the old one negated.
C13_ImbalanceRange ==
  [][ Handled = "sample" =>
        /\ stats'.bidVolume >= 0 /\ stats'.askVolume >= 0
        /\ InUnitInterval(imbalance')
        /\ \A i \in 1..Len(imbalanceHistory') :
              InUnitInterval(imbalanceHistory'[i])
        /\ ( /\ stats.bidVolume + stats.askVolume > 0
             /\ stats'.bidVolume = stats.askVolume
             /\ stats'.askVolume = stats.bidVolume
             => imbalance' = <<-imbalance[1], imbalance[2]>> ) ]_vars

\* Both ends of the interval and a pair of exchanged volumes have occurred.
C13_Witness ==
  /\ imbalanceHistory = <<<<1, 1>>, <<-1, 1>>>>
  /\ stats.bidVolume = 0
  /\ stats.askVolume > 0

\* The volumes of a published book, quantities in units of 0.5.
VolumesAre(b, a) == stats.bidVolume = b /\ stats.askVolume = a

TotalQty(levels) ==
  LET acc[i \in 0..Len(levels)] ==
        IF i = 0 THEN 0 ELSE acc[i - 1] + levels[i].qty
  IN  acc[Len(levels)]

\* The first n elements of a list, all of them when it is shorter.
FirstRows(q, n) == [i \in 1..(IF Len(q) < n THEN Len(q) ELSE n) |-> q[i]]

\* C15 (SpecVolumes): the published lists are the full lists the engine
\* returned (up to DEPTH levels a side), the published volumes are the sums
\* over all of their levels, and only the displayed rows are cut to ten.
C15_FullDepthVolumes ==
  [][ (Handled = "sample" \/ Handled = "zero") =>
        /\ \E r \in VolumeResults :
              /\ bids' = r.bids
              /\ asks' = r.asks
              /\ stats'.bidVolume = TotalQty(r.bids)
              /\ stats'.askVolume = TotalQty(r.asks)
        /\ Len(bids') <= DEPTH /\ Len(asks') <= DEPTH
        /\ DisplayedBids' = FirstRows(bids', DisplayDepth)
        /\ DisplayedAsks' = FirstRows(asks', DisplayDepth) ]_vars

\* All DEPTH levels of both sides published: the volumes count the levels
\* below the displayed rows.
C15_Witness ==
  /\ Len(bids) = DEPTH
  /\ Len(asks) = DEPTH
  /\ Len(DisplayedBids) = DisplayDepth
  /\ stats.bidVolume = TotalQty(bids)
  /\ stats.bidVolume > TotalQty(DisplayedBids)
  /\ stats.askVolume = DEPTH

\* The step just taken dequeued a delta and found no book.
Discards == Len(discarded') = Len(discarded) + 1

\* C16 (SpecCore): every advance that dequeued a delta ends with busy false,
\* whatever the exit (sample, zero volume, other type, no result, throw,
\* absent book); with a non-empty queue it leaves a scheduled continuation
\* and does not start the next engine call itself.  Hence, whenever no
\* advance is executing, busy is false and a non-empty queue has at least
\* one pending continuation.
C16_UnlockAndWakeUp ==
  /\ [](inflight = <<>> =>
          /\ ~processing
          /\ (messageQueue # <<>> => timers >= 1))
  /\ [][ /\ Handled # "" =>
              /\ ~processing'
              /\ inflight' = <<>>
              /\ applied' = applied
              /\ messageQueue' = messageQueue
              /\ timers' = (IF messageQueue # <<>> THEN timers + 1 ELSE timers)
         /\ Discards =>
              /\ ~processing'
              /\ applied' = applied
              /\ inflight' = inflight
              /\ (messageQueue' # <<>> => timers' >= 1) ]_vars

\* A sample and then a throw have been handled, and the processor is
\* unlocked with a backlog and a pending continuation.
C16_Witness ==
  /\ outcomes = <<"sample", "throw">>
  /\ inflight = <<>>
  /\ ~processing
  /\ messageQueue # <<>>
  /\ timers >= 1

\* C17 (Spec): the published state is consistent: when the published volumes
\* have a positive total the published imbalance is
\* (bidVolume - askVolume) / (bidVolume + askVolume), and a non-empty
\* history ends with the published imbalance.
C17_PublishedConsistent ==
  /\ stats.bidVolume + stats.askVolume > 0 =>
       /\ imbalance[2] > 0
       /\ imbalance[1] * (stats.bidVolume + stats.askVolume)
            = (stats.bidVolume - stats.askVolume) * imbalance[2]
  /\ imbalanceHistory # <<>> =>
       imbalanceHistory[Len(imbalanceHistory)] = imbalance

\* A sample, a zero-volume update and a second, different sample.
C17_Witness ==
  /\ outcomes = <<"sample", "zero", "sample">>
  /\ stats.bidVolume + stats.askVolume > 0
  /\ Len(imbalanceHistory) = 2
  /\ imbalanceHistory[1] # imbalanceHistory[2]
  /\ imbalance = imbalanceHistory[2]

\* C18 (SpecBurst): in the wired component every enqueue finds busy false
\* and an empty queue, and leaves them so: between handlers the queue is
\* empty, no engine call is open and no continuation is pending; the queue
\* holds one delta at most (right after the push); the truncation has never
\* run, however many deltas have arrived.
C18_NoBacklog ==
  /\ AtRest
  /\ truncations = 0
  /\ Len(QueuePush(Cur).messageQueue) = 1
  /\ Len(applied) + Len(discarded) = enqueued

\* More deltas than the queue bound have arrived and each has been applied.
C18_Witness ==
  /\ enqueued > QueueCap
  /\ Len(applied) = enqueued
  /\ AtRest
  /\ truncations = 0

\* C19 (Spec): the engine is called only on a book that has been created
\* and not yet freed; no delta is enqueued before the book exists (none is
\* ever discarded for want of a book); and while the current book is absent
\* or freed no step enqueues a delta or calls the engine.
C19_EngineOnLiveBook ==
  /\ [](/\ \A i \in 1..Len(applied) :
             applied[i].book.id # 0 /\ ~applied[i].book.freed
        /\ discarded = <<>>)
  /\ [][ (bookRef.id = 0 \/ bookRef.freed) =>
            /\ applied' = applied
            /\ enqueued' = enqueued
            /\ timers' = 0 ]_vars

\* Two sessions have each applied deltas to their own book, the second book
\* has been freed and its socket is still closing.
C19_Witness ==
  /\ sessions = 2
  /\ bookRef.id = 2
  /\ bookRef.freed
  /\ wsRef.state = "closing"
  /\ {applied[i].book.id : i \in 1..Len(applied)} = {1, 2}

====
